---- MODULE Spec2Model ----
(***************************************************************************)
(* Model of src/AzureStorageServices/azure_blob_storage.py: helper         *)
(* functions around the Azure blob storage SDK.                            *)
(*                                                                         *)
(* The remote container is the only persistent state.  Every function of   *)
(* the script is one action; `last` records the most recent call (its      *)
(* arguments, the container before it, what it returned or raised and what *)
(* it printed).  Strings that the code inspects character by character     *)
(* (blob names, match strings, the progress line) are sequences of         *)
(* one-character strings.                                                  *)
(*                                                                         *)
(* Each function is modelled statement by statement as written.  The       *)
(* `break` of line 115 stands outside any loop, which Python rejects with  *)
(* "SyntaxError: 'break' outside loop"; the model records that error at    *)
(* the point the statement is reached.                                     *)
(*                                                                         *)
(* Python's `/` is float division.  int(a / b) equals the truncated exact  *)
(* quotient whenever a < 2^53, which covers every size within the bounds   *)
(* below; the model computes the truncated exact quotient.                 *)
(***************************************************************************)
EXTENDS Integers, Sequences, FiniteSets, TLC

VARIABLES container, last, repeat, hook_total, shown, prev_shown

vars == <<container, last, repeat, hook_total, shown, prev_shown>>

(* ----------------------------- bounds --------------------------------- *)

\* longest local file (in bytes) offered to upload_file_to_blob
MaxFileLen == 1
\* longest list passed as matching_string
MaxListLen == 1
\* sizes 0..MaxSize are offered to show_file_progress
MaxSize == 25

(* --------------------------- strings ---------------------------------- *)

ax_csv == <<"a", "/", "x", ".", "c", "s", "v">>
ay_csv == <<"a", "/", "y", ".", "c", "s", "v">>
bz_csv == <<"b", "/", "z", ".", "c", "s", "v">>

parent_folder == <<"p", "a", "r", "e", "n", "t", "_", "f", "o", "l", "d", "e", "r">>
child_folder == <<"c", "h", "i", "l", "d", "_", "f", "o", "l", "d", "e", "r">>
file_name_csv == <<"f", "i", "l", "e", "_", "n", "a", "m", "e", ".", "c", "s", "v">>

\* '{}/{}/{}'.format(a, b, c)
Format3(a, b, c) == a \o <<"/">> \o b \o <<"/">> \o c

file_name_with_folder_structure_on_blob == Format3(parent_folder, child_folder, file_name_csv)

\* the blob names that may exist in the container, in the order the service
\* lists them (lexicographic by name)
NameOrder == <<ax_csv, ay_csv, bz_csv, file_name_with_folder_structure_on_blob>>

BlobNames == {NameOrder[i] : i \in 1..Len(NameOrder)}

\* the substrings offered as matching_string
MatchStrings == {<<"a", "/">>, <<".", "c", "s", "v">>, <<"y">>,
                 <<"f", "o", "l", "d", "e", "r", "/">>, <<"q">>, <<>>}

Bytes == {0}

SeqsUpTo(S, n) == UNION {[1..k -> S] : k \in 0..n}

\* contents of a file or blob
Contents == SeqsUpTo(Bytes, MaxFileLen)

\* a container maps the names of the blobs it holds to their contents
Put(c, name, data) == [n \in DOMAIN c \cup {name} |-> IF n = name THEN data ELSE c[n]]
Remove(c, name) == [n \in DOMAIN c \ {name} |-> c[n]]

Containers == UNION {[S -> Contents] : S \in SUBSET BlobNames}

CredentialTypes == {"default", "interactive", "cli", ""}

\* the sizes offered to show_file_progress, with the documented example
Sizes == (0..MaxSize) \cup {50, 200}

(* ------------------------ pure helpers -------------------------------- *)

\* a variant that matches only at the start of the name
StartsWith(s, t) == Len(s) <= Len(t) /\ SubSeq(t, 1, Len(s)) = s

\* Python `s in t` for strings
IsSubstring(s, t) ==
    \E i \in 0..(Len(t) - Len(s)) : SubSeq(t, i + 1, i + Len(s)) = s

Abs(n) == IF n < 0 THEN -n ELSE n

\* int(n / d): the quotient truncated toward zero
PyIntOfDiv(n, d) ==
    IF (n < 0) = (d < 0) THEN Abs(n) \div Abs(d) ELSE -(Abs(n) \div Abs(d))

DigitChar(d) == <<"0", "1", "2", "3", "4", "5", "6", "7", "8", "9">>[d + 1]

RECURSIVE NatStr(_)
NatStr(n) == IF n < 10 THEN <<DigitChar(n)>>
             ELSE NatStr(n \div 10) \o <<DigitChar(n % 10)>>

\* str(n) for an int
PyStr(n) == IF n < 0 THEN <<"-">> \o NatStr(-n) ELSE NatStr(n)

\* '#' * n  (empty for n <= 0)
Repeat(ch, n) == [i \in 1..n |-> ch]

Msg(fmt, arg) == [fmt |-> fmt, arg |-> arg]

(* --------------------- get_azure_credential --------------------------- *)

\* a variant that falls back to the default credential
get_azure_credential_fallback(type) ==
    IF type = "interactive"
    THEN [credential |-> "InteractiveBrowserCredential", err |-> "none"]
    ELSE [credential |-> "DefaultAzureCredential", err |-> "none"]

\* `credential` is bound by neither branch for any other type, and the
\* return statement then raises UnboundLocalError
get_azure_credential(type) ==
    IF type = "default"
    THEN [credential |-> "DefaultAzureCredential", err |-> "none"]
    ELSE IF type = "interactive"
    THEN [credential |-> "InteractiveBrowserCredential", err |-> "none"]
    ELSE [credential |-> "None", err |-> "UnboundLocalError"]

(* ----------------------- show_file_progress --------------------------- *)

bar_total_length == 20

PercentCompleted == <<"%", " ", "C", "o", "m", "p", "l", "e", "t", "e", "d">>

\* variants of the percentage: the remainder instead of the quotient, and
\* rounding to nearest instead of truncating
percentage_remainder(uploaded_size, total_size) ==
    (uploaded_size * 100) % total_size

percentage_rounded(uploaded_size, total_size) ==
    (2 * uploaded_size * 100 + total_size) \div (2 * total_size)

\* int((uploaded_size*100) / total_size)
percentage_uploaded(uploaded_size, total_size) ==
    PyIntOfDiv(uploaded_size * 100, total_size)

\* a variant that rounds the bar length up
bar_length_ceiling(percentage) ==
    (percentage * bar_total_length + 99) \div 100

\* int(percentage_uploaded * bar_total_length / 100)
current_bar_length(percentage) ==
    PyIntOfDiv(percentage * bar_total_length, 100)

\* '|' + '#'*current_bar_length + '|' + str(percentage_uploaded) + '% Completed'
progress_bar(percentage, bar_length) ==
    <<"|">> \o Repeat("#", bar_length) \o <<"|">> \o PyStr(percentage) \o PercentCompleted

\* The division of line 97 raises ZeroDivisionError for total_size = 0,
\* before anything is printed.  Otherwise one line '\r' + progress_bar.
show_file_progress(uploaded_size, total_size) ==
    IF total_size = 0
    THEN [err |-> "ZeroDivisionError", percentage |-> 0, bar_length |-> 0, out |-> <<>>]
    ELSE LET percentage == percentage_uploaded(uploaded_size, total_size)
             bar_length == current_bar_length(percentage)
         IN  [err |-> "none", percentage |-> percentage, bar_length |-> bar_length,
              out |-> <<Msg("progress_bar", <<"\r">> \o progress_bar(percentage, bar_length))>>]

(* ------------------ list_blobs_in_the_container ----------------------- *)

\* container_client.list_blobs(): the names of the blobs present, in the
\* service's listing order, behind a paged iterator (azure.core.paging
\* ItemPaged: __iter__ returns the object itself, so the items handed out
\* by one traversal are not handed out again by the next)
BlobListing(c) == SelectSeq(NameOrder, LAMBDA n : n \in DOMAIN c)

ItemPaged(items) == [items |-> items, next |-> 1]

\* what a `for` over the iterator yields, and the iterator afterwards
Traverse(it) == [yielded |-> SubSeq(it.items, it.next, Len(it.items)),
                 it |-> [it EXCEPT !.next = Len(it.items) + 1]]

MsgEach(fmt, names) == [i \in 1..Len(names) |-> Msg(fmt, names[i])]

list_blobs_in_the_container(c, print_list) ==
    LET blob_list == ItemPaged(BlobListing(c))
        printing == Traverse(blob_list)
        after_print == IF print_list THEN printing.it ELSE blob_list
    IN  [ret |-> Traverse(after_print).yielded,
         out |-> <<Msg("Listing blobs...", <<>>)>>
                 \o (IF print_list THEN MsgEach("blob.name", printing.yielded) ELSE <<>>)]

(* -------------------------- delete_blob_file -------------------------- *)

\* a variant that logs the deletion without performing it
delete_blob_file_log_only(c, file_name) ==
    [container |-> c,
     err |-> IF file_name \in DOMAIN c THEN "none" ELSE "PartialBatchErrorException",
     out |-> <<Msg("Deleting blob File -> ", file_name)>>]

\* print, then container_client.delete_blobs(file_name); deleting a blob
\* that does not exist makes the SDK raise
delete_blob_file(c, file_name) ==
    [container |-> Remove(c, file_name),
     err |-> IF file_name \in DOMAIN c THEN "none" ELSE "PartialBatchErrorException",
     out |-> <<Msg("Deleting blob File -> ", file_name)>>]

(* ------------ delete_all_blobs_that_matching_string_in_their_name ----- *)

\* matching_string is [kind |-> "str", val |-> <<s>>] for the string s, or
\* [kind |-> "list", val |-> the list of strings]
StrArg(s) == [kind |-> "str", val |-> <<s>>]
ListArg(l) == [kind |-> "list", val |-> l]

MatchingArgs == {StrArg(s) : s \in MatchStrings}
                \cup {ListArg(l) : l \in SeqsUpTo(MatchStrings, MaxListLen)}

\* the inner loop (lines 153-154): delete_blob_file for each selected name;
\* an exception ends the loop
RECURSIVE DeleteEach(_, _, _)
DeleteEach(acc, list_to_delete, k) ==
    IF k > Len(list_to_delete) \/ acc.err # "none" THEN acc
    ELSE LET d == delete_blob_file(acc.container, list_to_delete[k])
         IN  DeleteEach([acc EXCEPT !.container = d.container,
                                    !.err = d.err,
                                    !.out = @ \o d.out,
                                    !.delete_calls = @ \o <<list_to_delete[k]>>],
                        list_to_delete, k + 1)

\* the outer loop (lines 149-154) over name_list
RECURSIVE DeleteForNames(_, _, _)
DeleteForNames(acc, name_list, k) ==
    IF k > Len(name_list) \/ acc.err # "none" THEN acc
    ELSE LET name == name_list[k]
             listing == list_blobs_in_the_container(acc.container, FALSE)
             blob_list == listing.ret
             list_to_delete == SelectSeq(blob_list, LAMBDA i : IsSubstring(name, i))
             started == [acc EXCEPT !.out = @ \o <<Msg("Deleting files of job -> ", name)>>
                                             \o listing.out,
                                    !.list_to_delete = list_to_delete]
         IN  DeleteForNames(DeleteEach(started, list_to_delete, 1), name_list, k + 1)

\* name_list is assigned only when matching_string is a str (lines 147-148);
\* for any other argument the `for` of line 149 reads an unbound local
delete_all_blobs_that_matching_string_in_their_name(c, matching_string) ==
    LET start == [container |-> c, err |-> "none", out |-> <<>>,
                  list_to_delete |-> <<>>, delete_calls |-> <<>>]
    IN  IF matching_string.kind = "str"
        THEN DeleteForNames(start, matching_string.val, 1)
        ELSE [start EXCEPT !.err = "UnboundLocalError"]

(* ------------------------ upload_file_to_blob ------------------------- *)

\* a handler that catches every exception
CatchesAny(raised) == raised # "none"

\* except ResourceExistsError (line 113)
Catches(raised) == raised = "ResourceExistsError"

\* blob_client.upload_blob(data, progress_hook=...): the SDK refuses to
\* overwrite an existing blob (overwrite defaults to False); otherwise it
\* stores the data and reports the transfer to the hook, once for a file
\* that fits a single request, with current = total = len(data)
upload_blob(c, blob_name, data) ==
    IF blob_name \in DOMAIN c
    THEN [container |-> c, err |-> "ResourceExistsError", out |-> <<>>]
    ELSE LET hook == show_file_progress(Len(data), Len(data))
         IN  [container |-> Put(c, blob_name, data),
              err |-> hook.err, out |-> hook.out]

\* lines 102-115; the local file ./filename.csv holds `data`
upload_file_to_blob(c, data) ==
    LET interactive_credential == get_azure_credential("interactive")
        body == upload_blob(c, file_name_with_folder_structure_on_blob, data)
    IN  IF interactive_credential.err # "none"
        THEN [container |-> c, err |-> interactive_credential.err, out |-> <<>>,
              handled |-> FALSE]
        ELSE IF Catches(body.err)
        THEN [container |-> body.container,
              err |-> "SyntaxError",
              out |-> body.out
                      \o <<Msg("you are trying to upload an existing file in the blob", <<>>)>>,
              handled |-> TRUE]
        ELSE [container |-> body.container, err |-> body.err, out |-> body.out,
              handled |-> FALSE]

(* --------------------------- state machine ---------------------------- *)

NoCall(c) == [op |-> "none", type |-> "", print_list |-> FALSE,
              matching |-> StrArg(<<>>), file_name |-> <<>>, data |-> <<>>,
              before |-> c, ret |-> <<>>, credential |-> "None", err |-> "none",
              out |-> <<>>, list_to_delete |-> <<>>, delete_calls |-> <<>>,
              handled |-> FALSE]

NoShow == [called |-> FALSE, uploaded_size |-> 0, err |-> "none",
           percentage |-> 0, bar_length |-> 0, out |-> <<>>]

EmptyContainer == [n \in {} |-> <<>>]

\* the container holds any of the known blobs when the script starts
Init ==
    /\ container \in Containers
    /\ last = NoCall(container)
    /\ repeat = FALSE
    /\ hook_total = 0
    /\ shown = NoShow
    /\ prev_shown = NoShow

GetAzureCredential ==
    \E type \in CredentialTypes :
        LET r == get_azure_credential(type)
        IN  /\ last' = [NoCall(container) EXCEPT !.op = "get_azure_credential",
                            !.type = type, !.credential = r.credential, !.err = r.err]
            /\ repeat' = FALSE
            /\ UNCHANGED <<container, hook_total, shown, prev_shown>>

ListBlobsInTheContainer ==
    \E print_list \in BOOLEAN :
        LET r == list_blobs_in_the_container(container, print_list)
        IN  /\ last' = [NoCall(container) EXCEPT !.op = "list_blobs_in_the_container",
                            !.print_list = print_list, !.ret = r.ret, !.out = r.out]
            /\ repeat' = FALSE
            /\ UNCHANGED <<container, hook_total, shown, prev_shown>>

DeleteBlobFile ==
    \E file_name \in BlobNames :
        LET r == delete_blob_file(container, file_name)
        IN  /\ container' = r.container
            /\ last' = [NoCall(container) EXCEPT !.op = "delete_blob_file",
                            !.file_name = file_name, !.err = r.err, !.out = r.out]
            /\ repeat' = FALSE
            /\ UNCHANGED <<hook_total, shown, prev_shown>>

DeleteAllBlobsMatching ==
    \E matching_string \in MatchingArgs :
        LET r == delete_all_blobs_that_matching_string_in_their_name(container, matching_string)
        IN  /\ container' = r.container
            /\ last' = [NoCall(container) EXCEPT
                            !.op = "delete_all_blobs_that_matching_string_in_their_name",
                            !.matching = matching_string, !.err = r.err, !.out = r.out,
                            !.list_to_delete = r.list_to_delete,
                            !.delete_calls = r.delete_calls]
            \* this call repeats the call that completed just before it
            /\ repeat' = (/\ last.op = "delete_all_blobs_that_matching_string_in_their_name"
                          /\ last.err = "none"
                          /\ last.matching = matching_string)
            /\ UNCHANGED <<hook_total, shown, prev_shown>>

UploadFileToBlob ==
    \E data \in Contents :
        LET r == upload_file_to_blob(container, data)
        IN  /\ container' = r.container
            /\ last' = [NoCall(container) EXCEPT !.op = "upload_file_to_blob",
                            !.data = data, !.err = r.err, !.out = r.out,
                            !.handled = r.handled]
            /\ repeat' = FALSE
            /\ UNCHANGED <<hook_total, shown, prev_shown>>

Next ==
    \/ GetAzureCredential
    \/ ListBlobsInTheContainer
    \/ DeleteBlobFile
    \/ DeleteAllBlobsMatching
    \/ UploadFileToBlob

Spec == Init /\ [][Next]_vars

\* The progress hook on its own: a transfer of hook_total bytes reports any
\* uploaded size; `shown` is the latest call and `prev_shown` the one before.
InitProgress ==
    /\ container = EmptyContainer
    /\ last = NoCall(container)
    /\ repeat = FALSE
    /\ hook_total \in Sizes
    /\ shown = NoShow
    /\ prev_shown = NoShow

ShowFileProgress ==
    \E uploaded_size \in Sizes :
        LET r == show_file_progress(uploaded_size, hook_total)
        IN  /\ shown' = [called |-> TRUE, uploaded_size |-> uploaded_size, err |-> r.err,
                         percentage |-> r.percentage, bar_length |-> r.bar_length,
                         out |-> r.out]
            /\ prev_shown' = shown
            /\ UNCHANGED <<container, last, repeat, hook_total>>

NextProgress == ShowFileProgress

SpecProgress == InitProgress /\ [][NextProgress]_vars

(* ------------------------------ claims -------------------------------- *)

DeleteAllOp == "delete_all_blobs_that_matching_string_in_their_name"

\* s occurs in t at some offset, character by character
Contains(s, t) ==
    \E off \in 0..Len(t) :
        /\ off + Len(s) <= Len(t)
        /\ \A k \in 1..Len(s) : t[off + k] = s[k]

ContainsAny(l, t) == \E k \in 1..Len(l) : Contains(l[k], t)

\* c is b without the blobs that satisfy Gone, the others untouched
Kept(b, c, Gone(_)) ==
    /\ DOMAIN c = {n \in DOMAIN b : ~Gone(n)}
    /\ \A n \in DOMAIN c : c[n] = b[n]

HasMsg(out, fmt) == \E i \in 1..Len(out) : out[i].fmt = fmt

CountChar(line, ch) == Cardinality({i \in 1..Len(line) : line[i] = ch})

\* the number of '#' printed by a call of show_file_progress
Hashes(call) == CountChar(call.out[1].arg, "#")

DigitOf(ch) == CHOOSE d \in 0..9 : DigitChar(d) = ch

IsDigit(ch) == \E d \in 0..9 : DigitChar(d) = ch

RECURSIVE DecimalValue(_)
DecimalValue(ds) ==
    IF Len(ds) = 0 THEN 0
    ELSE 10 * DecimalValue(SubSeq(ds, 1, Len(ds) - 1)) + DigitOf(ds[Len(ds)])

\* C1: a substring delete with a single string s removes exactly the blobs
\* whose name contains s and leaves every other blob present with its
\* content, and ends without an error.
C1_SubstringDeleteExact ==
    (last.op = DeleteAllOp /\ last.matching.kind = "str") =>
        /\ last.err = "none"
        /\ Kept(last.before, container, LAMBDA n : Contains(last.matching.val[1], n))

C1_Witness ==
    /\ last.op = DeleteAllOp
    /\ last.matching = StrArg(<<"a", "/">>)
    /\ DOMAIN last.before = {ax_csv, ay_csv, bz_csv}
    /\ DOMAIN container = {bz_csv}

\* C2: an upload to a name that already exists prints the conflict message,
\* leaves the container as it was, and ends without any error.
C2_ConflictReportedCleanly ==
    (last.op = "upload_file_to_blob"
        /\ file_name_with_folder_structure_on_blob \in DOMAIN last.before) =>
        /\ HasMsg(last.out, "you are trying to upload an existing file in the blob")
        /\ container = last.before
        /\ last.err = "none"

\* C3: a substring delete with a list of strings removes exactly the blobs
\* whose name contains at least one of the strings, leaves the others, and
\* ends without an error.
C3_ListDeleteProcessesAll ==
    (last.op = DeleteAllOp /\ last.matching.kind = "list") =>
        /\ last.err = "none"
        /\ Kept(last.before, container, LAMBDA n : ContainsAny(last.matching.val, n))

\* C4: list_blobs_in_the_container, with print_list True as with False,
\* returns the names of all the blobs of the container (each once, so the
\* two results agree) and leaves the container as it was.
C4_ListReturnsAllNames ==
    (last.op = "list_blobs_in_the_container") =>
        /\ Len(last.ret) = Cardinality(DOMAIN last.before)
        /\ {last.ret[i] : i \in 1..Len(last.ret)} = DOMAIN last.before
        /\ container = last.before

\* C5: a substring delete that repeats the completed substring delete just
\* before it selects nothing, issues no delete call and leaves the
\* container as it was.
C5_RepeatDeleteIsNoOp ==
    (last.op = DeleteAllOp /\ repeat) =>
        /\ last.list_to_delete = <<>>
        /\ last.delete_calls = <<>>
        /\ container = last.before

C5_Witness ==
    /\ last.op = DeleteAllOp
    /\ repeat
    /\ last.matching = StrArg(<<"a", "/">>)
    /\ last.err = "none"
    /\ bz_csv \in DOMAIN container

\* C6: for a fixed total_size > 0, of two calls of show_file_progress the
\* one with the larger uploaded size has a percentage and a number of '#'
\* at least as large.
C6_ProgressMonotonic ==
    (shown.called /\ prev_shown.called /\ hook_total > 0
        /\ prev_shown.uploaded_size < shown.uploaded_size) =>
        /\ prev_shown.percentage <= shown.percentage
        /\ Hashes(prev_shown) <= Hashes(shown)

C6_Witness ==
    /\ shown.called /\ prev_shown.called /\ hook_total = 7
    /\ prev_shown.uploaded_size = 3 /\ shown.uploaded_size = 5
    /\ prev_shown.percentage < shown.percentage
    /\ Hashes(prev_shown) < Hashes(shown)

\* C7: for total_size > 0 the percentage is floor(uploaded_size*100/total_size)
\* and the printed line is '\r', '|', floor(percentage*20/100) times '#',
\* '|', the percentage in decimal and '% Completed'.
C7_PercentageAndBar ==
    (shown.called /\ hook_total > 0) =>
        LET p == shown.percentage
            line == shown.out[1].arg
            n == Hashes(shown)
            digits == SubSeq(line, n + 4, Len(line) - Len(PercentCompleted))
        IN  /\ shown.err = "none"
            /\ p * hook_total <= shown.uploaded_size * 100
            /\ shown.uploaded_size * 100 < (p + 1) * hook_total
            /\ n * 100 <= p * 20
            /\ p * 20 < (n + 1) * 100
            /\ Len(shown.out) = 1
            /\ line[1] = "\r"
            /\ line[2] = "|"
            /\ \A i \in 3..(n + 2) : line[i] = "#"
            /\ line[n + 3] = "|"
            /\ Len(digits) >= 1
            /\ \A i \in 1..Len(digits) : IsDigit(digits[i])
            /\ (Len(digits) > 1 => digits[1] # "0")
            /\ DecimalValue(digits) = p
            /\ SubSeq(line, Len(line) - Len(PercentCompleted) + 1, Len(line)) = PercentCompleted

C7_Witness ==
    /\ shown.called
    /\ hook_total = 200
    /\ shown.uploaded_size = 50
    /\ shown.percentage = 25
    /\ Hashes(shown) = 5
    /\ shown.out[1].arg = <<"\r", "|", "#", "#", "#", "#", "#", "|", "2", "5">> \o PercentCompleted

\* C8: an upload whose progress hook is called with total_size = 0 (an empty
\* file, no blob in the way) prints no progress line and no conflict
\* message, its handler does not run, and ZeroDivisionError reaches the
\* caller.
C8_ZeroTotalPropagates ==
    (last.op = "upload_file_to_blob" /\ Len(last.data) = 0
        /\ file_name_with_folder_structure_on_blob \notin DOMAIN last.before) =>
        /\ last.err = "ZeroDivisionError"
        /\ ~last.handled
        /\ ~HasMsg(last.out, "progress_bar")
        /\ ~HasMsg(last.out, "you are trying to upload an existing file in the blob")

C8_Witness ==
    /\ last.op = "upload_file_to_blob"
    /\ last.data = <<>>
    /\ file_name_with_folder_structure_on_blob \notin DOMAIN last.before
    /\ last.err = "ZeroDivisionError"

\* C9: for total_size > 0 and 0 <= uploaded_size <= total_size the
\* percentage is in 0..100 and the number of '#' in 0..20, and the bar is
\* full (20 characters) and the percentage 100 exactly when uploaded_size =
\* total_size.
C9_BarBounded ==
    (shown.called /\ hook_total > 0 /\ shown.uploaded_size <= hook_total) =>
        /\ shown.percentage \in 0..100
        /\ Hashes(shown) \in 0..bar_total_length
        /\ (Hashes(shown) = bar_total_length) <=> (shown.uploaded_size = hook_total)
        /\ (shown.percentage = 100) <=> (shown.uploaded_size = hook_total)

C9_Witness ==
    /\ shown.called /\ prev_shown.called
    /\ hook_total = 25
    /\ prev_shown.uploaded_size = 24 /\ Hashes(prev_shown) = 19
    /\ shown.uploaded_size = 25 /\ Hashes(shown) = 20 /\ shown.percentage = 100

\* C10: get_azure_credential gives the default credential for 'default',
\* the interactive browser credential for 'interactive', and for any other
\* type no credential and an UnboundLocalError.
C10_CredentialByType ==
    (last.op = "get_azure_credential") =>
        /\ (last.type = "default" =>
                last.credential = "DefaultAzureCredential" /\ last.err = "none")
        /\ (last.type = "interactive" =>
                last.credential = "InteractiveBrowserCredential" /\ last.err = "none")
        /\ (last.type \notin {"default", "interactive"} =>
                last.credential = "None" /\ last.err = "UnboundLocalError")

C10_Witness ==
    /\ last.op = "get_azure_credential"
    /\ last.type = "cli"
    /\ last.credential = "None"
    /\ last.err = "UnboundLocalError"

====
